---- MODULE Spec2Model ----
(***************************************************************************)
(* Model of the vehicle-routing solvers of raviqqe/vrp:                    *)
(*   NearestNeighborSolver  (src/src/solve/nearest_neighbor.rs)            *)
(*   RuinAndRecreateSolver  (src/src/solve/ruin_and_recreate.rs)           *)
(*   CostCalculator         (src/src/cost/calculator.rs)                   *)
(*                                                                         *)
(* Stop and vehicle indices are 0-based as in the source; a Solution is a  *)
(* sequence of routes, the route of vehicle v being solution[v + 1], and   *)
(* position p of a route being route[p + 1].  Locations lie on a line, so  *)
(* the crow-flight distance of two locations is |a - b|.                   *)
(***************************************************************************)
EXTENDS Integers, Sequences, FiniteSets, TLC

\* ------------------------------------------------------------------ bounds
\* RuinAndRecreateSolver runs
MaxVehicles == 2
MaxStops == 2
MaxCoord == 1
MaxIterations == 1
\* NearestNeighborSolver runs
MaxVehiclesNN == 2
MaxStopsNN == 4
MaxCoordNN == 2
\* the even-workload runs: vehicles start anywhere on 0..MaxStart
MaxStart == 4
\* the long-route runs
MaxIterationsLong == 2

\* ------------------------------------------------------- program constants
MAX_VEHICLE_REGION_SIZE == 2
MAX_STOP_REGION_SIZE == 6
\* the tests weigh distance by 1.0 and a missed delivery by 1e9; the penalty
\* is scaled to stay in the integer range and still dominates every distance
DISTANCE_COST == 1
MISSED_DELIVERY_COST == 1000
\* f64::INFINITY: greater than every finite cost
Infinity == 1000000
\* f64::NAN: OrderedFloat orders it above every other value, infinity included
NaN == 1000001
\* the problem of tests::even_workload: two vehicles, three stops, x up to 2.0
EVEN_WORKLOAD_VEHICLES == 2
EVEN_WORKLOAD_STOPS == 3
EVEN_WORKLOAD_MAX_X == 2

VARIABLES
    vehicle_count,    \* problem.vehicle_count()
    stop_count,       \* problem.stop_count()
    vehicle_start,    \* vehicle v starts at vehicle_start[v + 1]
    stop_loc,         \* stop s lies at stop_loc[s + 1]
    iteration_count,  \* RuinAndRecreateSolver.iteration_count
    calc,             \* the CostCalculator configured
    solver,           \* the solver whose solve() is called: "nn" or "rr"
    pc,               \* position in solve()
    solution,         \* the local `solution` of the running solve()
    stops,            \* NearestNeighborSolver: the unvisited HashSet
    vehicle_index,    \* NearestNeighborSolver: the for-loop variable
    closest_stops,    \* RuinAndRecreateSolver: nearest other stop of each stop
    cost,             \* RuinAndRecreateSolver: the incumbent cost
    iter,             \* iterations of the main loop completed
    regions,          \* the regions chosen in this iteration
    solutions,        \* the recreate frontier: a set of <<Solution, cost>>
    round,            \* recreate rounds completed in this iteration
    new_solution,     \* what optimize_regions returned
    rng_used,         \* the random source has been consumed
    calc_used,        \* the CostCalculator has been called
    run,              \* 0: a single run; 1, 2: first and second of two runs
    first,            \* the Solution the first of two runs returned
    rng_log,          \* raw values the seeded generator produced in run 1
    rng_pos           \* raw values consumed so far in run 2

vars == <<vehicle_count, stop_count, vehicle_start, stop_loc,
          iteration_count, calc, solver, pc, solution, stops,
          vehicle_index, closest_stops, cost, iter, regions, solutions,
          round, new_solution, rng_used, calc_used, run, first, rng_log,
          rng_pos>>

problem == <<vehicle_count, stop_count, vehicle_start, stop_loc,
             iteration_count, calc, solver>>

nn_vars == <<stops, vehicle_index>>

rr_vars == <<closest_stops, cost, iter, regions, solutions, round,
             new_solution>>

run_vars == <<run, first, rng_log, rng_pos>>

\* --------------------------------------------------------------- helpers
Abs(x) == IF x < 0 THEN -x ELSE x

RECURSIVE SumSeq(_)
SumSeq(s) == IF s = <<>> THEN 0 ELSE Head(s) + SumSeq(Tail(s))

Range(s) == {s[i] : i \in 1..Len(s)}

StopSet == 0..(stop_count - 1)

VehicleSet == 0..(vehicle_count - 1)

\* ---------------------------------------------------------------- Router
\* Router::route for the crow-flight router on collinear locations
Route(a, b) == Abs(a - b)

StopLocation(s) == stop_loc[s + 1]

VehicleStartLocation(v) == vehicle_start[v + 1]

\* -------------------------------------------------------------- Solution
EmptySolution(n) == [v \in 1..n |-> <<>>]

add_stop(sol, v, s) == [sol EXCEPT ![v + 1] = Append(@, s)]

has_stop(sol, s) == \E v \in 1..Len(sol) : s \in Range(sol[v])

\* removes the positions lo..hi-1 of the route of vehicle v
ruin_route(sol, v, lo, hi) ==
    [sol EXCEPT ![v + 1] = SubSeq(@, 1, lo) \o SubSeq(@, hi + 1, Len(@))]

\* inserts stop s at position pos of the route of vehicle v
insert_stop(sol, v, pos, s) ==
    [sol EXCEPT ![v + 1] = SubSeq(@, 1, pos) \o <<s>> \o SubSeq(@, pos + 1, Len(@))]

\* number of positions of the solution that hold stop s
Occurrences(sol, s) ==
    Cardinality({p \in UNION {{<<v, i>> : i \in 1..Len(sol[v])} : v \in 1..Len(sol)} :
                    sol[p[1]][p[2]] = s})

\* ---------------------------------------------------------- CostCalculator
IsFinite(c) == c < Infinity

\* f64 `<`: false as soon as one side is NaN
Lt(a, b) == a # NaN /\ b # NaN /\ a < b

\* OrderedFloat::cmp(a, b) is not Greater
OrdLeq(a, b) == a <= b

RECURSIVE Legs(_)
Legs(locs) ==
    IF Len(locs) < 2 THEN 0
    ELSE Route(locs[1], locs[2]) + Legs(Tail(locs))

\* cost of one route: start -> first stop, then between consecutive stops
RouteCost(sol, v) ==
    IF sol[v] = <<>> THEN 0
    ELSE Legs(<<vehicle_start[v]>> \o [i \in 1..Len(sol[v]) |-> stop_loc[sol[v][i] + 1]])

DistanceCost(sol) == SumSeq([v \in 1..Len(sol) |-> RouteCost(sol, v)])

DeliveredCount(sol) == SumSeq([v \in 1..Len(sol) |-> Len(sol[v])])

DeliveryCost(sol) ==
    DISTANCE_COST * DistanceCost(sol)
        + MISSED_DELIVERY_COST * (stop_count - DeliveredCount(sol))

\* a calculator with an infeasibility rule: stop 1 may only be served by a
\* route that serves stop 0 before it; an infeasible candidate costs infinity
Infeasible(sol) ==
    \E v \in 1..Len(sol) : \E i \in 1..Len(sol[v]) :
        /\ sol[v][i] = 1
        /\ \A j \in 1..(i - 1) : sol[v][j] # 0

ConstrainedCost(sol) == IF Infeasible(sol) THEN Infinity ELSE DeliveryCost(sol)

\* the same rule, an infeasible candidate costing NaN
NanCost(sol) == IF Infeasible(sol) THEN NaN ELSE DeliveryCost(sol)

Calculate(sol) ==
    CASE calc = "distance" -> DistanceCost(sol)
      [] calc = "delivery" -> DeliveryCost(sol)
      [] calc = "nan" -> NanCost(sol)
      [] OTHER -> ConstrainedCost(sol)

Calculators == {"distance", "delivery", "constrained"}

\* --------------------------------------------------- NearestNeighborSolver
\* (variant: the reference point is always the vehicle's start location)
LastLocation_AlwaysStart(sol, v) == VehicleStartLocation(v)

\* lines 35-41: the reference point of the current vehicle
LastLocation(sol, v) ==
    IF sol[v + 1] # <<>> THEN StopLocation(sol[v + 1][Len(sol[v + 1])])
    ELSE VehicleStartLocation(v)

\* lines 43-52: the unvisited stops min_by_key can return; it returns the
\* first minimal one in the iteration order of the HashSet, which is any
NearestStops(from, unvisited) ==
    {s \in unvisited :
        \A t \in unvisited : Route(from, StopLocation(s)) <= Route(from, StopLocation(t))}

\* (variant: a single stop is not delegated, the main loop runs)
NNReturnPc_NoDelegation == IF solver = "rr" THEN "rr_cost" ELSE "done"

\* where solve() of the initial solver returns to: the caller when it is
\* called directly or delegated to (lines 169-171 of ruin_and_recreate.rs),
\* line 187 when it seeds the main loop (line 186)
NNReturnPc == IF solver = "rr" /\ stop_count # 1 THEN "rr_cost" ELSE "done"

\* lines 18-27
NNEntry ==
    /\ pc = "nn_start"
    /\ IF vehicle_count = 0
       THEN /\ solution' = <<>>
            /\ pc' = NNReturnPc
            /\ UNCHANGED nn_vars
       ELSE /\ solution' = EmptySolution(vehicle_count)
            /\ stops' = StopSet
            /\ vehicle_index' = 0
            /\ pc' = "nn_loop"
    /\ UNCHANGED <<problem, rr_vars, rng_used, calc_used, run_vars>>

\* (variant: the stops are marked visited by distance, not by index)
NNStep_RemoveByDistance ==
    /\ pc = "nn_loop"
    /\ stops # {}
    /\ \E stop_index \in NearestStops(LastLocation(solution, vehicle_index), stops) :
          /\ solution' = add_stop(solution, vehicle_index, stop_index)
          /\ stops' = stops \ NearestStops(LastLocation(solution, vehicle_index), stops)
    /\ vehicle_index' = (vehicle_index + 1) % vehicle_count
    /\ UNCHANGED <<problem, pc, rr_vars, rng_used, calc_used, run_vars>>

\* (variant: the next stop goes to the vehicle two further on)
NNStep_SkipVehicle ==
    /\ pc = "nn_loop"
    /\ stops # {}
    /\ \E stop_index \in NearestStops(LastLocation(solution, vehicle_index), stops) :
          /\ solution' = add_stop(solution, vehicle_index, stop_index)
          /\ stops' = stops \ {stop_index}
    /\ vehicle_index' = (vehicle_index + 2) % vehicle_count
    /\ UNCHANGED <<problem, pc, rr_vars, rng_used, calc_used, run_vars>>

\* lines 30-56: one pass of the for body with a stop left to assign
NNStep ==
    /\ pc = "nn_loop"
    /\ stops # {}
    /\ \E stop_index \in NearestStops(LastLocation(solution, vehicle_index), stops) :
          /\ solution' = add_stop(solution, vehicle_index, stop_index)
          /\ stops' = stops \ {stop_index}
    /\ vehicle_index' = (vehicle_index + 1) % vehicle_count
    /\ UNCHANGED <<problem, pc, rr_vars, rng_used, calc_used, run_vars>>

\* lines 31-33
NNReturn ==
    /\ pc = "nn_loop"
    /\ stops = {}
    /\ pc' = NNReturnPc
    /\ vehicle_index' = 0
    /\ UNCHANGED <<problem, solution, stops, rr_vars, rng_used, calc_used, run_vars>>

\* --------------------------------------------------- RuinAndRecreateSolver
Min(S) == CHOOSE x \in S : \A y \in S : x <= y

\* lines 173-184: min_by_key over a range returns the first minimal element
ClosestStops ==
    [i \in 1..stop_count |->
        LET one == i - 1
            others == StopSet \ {one}
        IN  Min({other \in others :
                   \A t \in others :
                       Route(StopLocation(one), StopLocation(other))
                           <= Route(StopLocation(one), StopLocation(t))})]

\* (variant: the vehicle count is not looked at)
RRSolve_NoVehicleCheck ==
    /\ pc = "rr_start"
    /\ IF stop_count = 0
       THEN /\ solution' = EmptySolution(vehicle_count)
            /\ pc' = "done"
            /\ UNCHANGED closest_stops
       ELSE IF stop_count = 1
       THEN /\ pc' = "nn_start"
            /\ UNCHANGED <<solution, closest_stops>>
       ELSE /\ closest_stops' = ClosestStops
            /\ pc' = "nn_start"
            /\ UNCHANGED solution
    /\ UNCHANGED <<problem, nn_vars, cost, iter, regions, solutions, round,
                   new_solution, rng_used, calc_used, run_vars>>

\* (variant: no stops gives a Solution without routes)
RRSolve_NoRoutesForNoStops ==
    /\ pc = "rr_start"
    /\ IF vehicle_count = 0 \/ stop_count = 0
       THEN /\ solution' = <<>>
            /\ pc' = "done"
            /\ UNCHANGED closest_stops
       ELSE IF stop_count = 1
       THEN /\ pc' = "nn_start"
            /\ UNCHANGED <<solution, closest_stops>>
       ELSE /\ closest_stops' = ClosestStops
            /\ pc' = "nn_start"
            /\ UNCHANGED solution
    /\ UNCHANGED <<problem, nn_vars, cost, iter, regions, solutions, round,
                   new_solution, rng_used, calc_used, run_vars>>

\* lines 160-186, up to the call of the initial solver
RRSolve ==
    /\ pc = "rr_start"
    /\ IF vehicle_count = 0
       THEN /\ solution' = <<>>
            /\ pc' = "done"
            /\ UNCHANGED closest_stops
       ELSE IF stop_count = 0
       THEN /\ solution' = EmptySolution(vehicle_count)
            /\ pc' = "done"
            /\ UNCHANGED closest_stops
       ELSE IF stop_count = 1
       THEN /\ pc' = "nn_start"
            /\ UNCHANGED <<solution, closest_stops>>
       ELSE /\ closest_stops' = ClosestStops
            /\ pc' = "nn_start"
            /\ UNCHANGED solution
    /\ UNCHANGED <<problem, nn_vars, cost, iter, regions, solutions, round,
                   new_solution, rng_used, calc_used, run_vars>>

\* line 187
RRCost ==
    /\ pc = "rr_cost"
    /\ cost' = Calculate(solution)
    /\ calc_used' = TRUE
    /\ pc' = "rr_loop"
    /\ UNCHANGED <<problem, solution, nn_vars, closest_stops, iter, regions,
                   solutions, round, new_solution, rng_used, run_vars>>

\* ------------------------------------------------------------ the SmallRng
RECURSIVE Lcm(_)
Gcd(a, b) == CHOOSE g \in 1..a : a % g = 0 /\ b % g = 0 /\
                 \A h \in 1..a : (a % h = 0 /\ b % h = 0) => h <= g

Lcm(n) == IF n <= 1 THEN 1 ELSE (Lcm(n - 1) * n) \div Gcd(Lcm(n - 1), n)

\* raw values of the generator; gen_index(rng, n) maps a raw value onto 0..n-1
RawValues == 0..(Lcm(stop_count) - 1)

GenIndex(raw, n) == raw % n

\* the generator is seeded with the constant SEED (lines 10, 35): a second
\* run of a fresh solver draws the raw values the first run drew
ReplayOK(raws) ==
    run = 2 =>
        \A k \in 1..Len(raws) :
            rng_pos + k <= Len(rng_log) => rng_log[rng_pos + k] = raws[k]

Consume(raws) ==
    /\ rng_log' = IF run = 1 THEN rng_log \o raws ELSE rng_log
    /\ rng_pos' = IF run = 2 THEN rng_pos + Len(raws) ELSE rng_pos
    /\ rng_used' = (rng_used \/ raws # <<>>)
    /\ UNCHANGED <<run, first>>

\* ------------------------------------------------------- region selection
\* lines 50-58: the first vehicle whose route contains the stop, if any
Holders(sol, s) == {v \in 0..(Len(sol) - 1) : s \in Range(sol[v + 1])}

\* (variant: a stop no route holds counts for vehicle 0)
Holder_OrFirstVehicle(sol, s) ==
    IF Holders(sol, s) = {} THEN <<<<0, s>>>> ELSE <<<<Min(Holders(sol, s)), s>>>>

Holder(sol, s) ==
    IF Holders(sol, s) = {} THEN <<>> ELSE <<<<Min(Holders(sol, s)), s>>>>

\* (variant: the pairs are not made unique by vehicle)
Pairs_NotUnique(sol, first_stop_index, second_stop_index) ==
    Holder(sol, first_stop_index) \o Holder(sol, second_stop_index)

\* lines 47-61: the (vehicle, stop) pairs, unique by vehicle
Pairs(sol, first_stop_index, second_stop_index) ==
    LET one == Holder(sol, first_stop_index)
        other == Holder(sol, second_stop_index)
    IN  IF one # <<>> /\ other # <<>> /\ one[1][1] = other[1][1]
        THEN one
        ELSE one \o other

\* line 84: the offsets choose() draws from are 0..len-size-1
OffsetCount(sol, v, stop_region_size) ==
    IF Len(sol[v + 1]) > stop_region_size
    THEN Len(sol[v + 1]) - stop_region_size
    ELSE 0

\* lines 76-92
choose_region(sol, v, stop_region_size, raw) ==
    LET len == Len(sol[v + 1])
        n == OffsetCount(sol, v, stop_region_size)
        index == IF n = 0 THEN 0 ELSE GenIndex(raw, n)
        end == IF index + stop_region_size < len THEN index + stop_region_size ELSE len
    IN  [vehicle_index |-> v, start |-> index, end |-> end]

\* the raw values a call of choose_region consumes: one if choose() has
\* offsets to draw from, none if its range is empty
RegionRaws(sol, pairs, k, size) ==
    IF k <= Len(pairs) /\ OffsetCount(sol, pairs[k][1], size) > 0
    THEN {<<r>> : r \in RawValues}
    ELSE {<<>>}

\* lines 39-74: the region lists choose_regions can return when the rng
\* draws the stop other_stop_index at line 46
PossibleRegions(sol, other_stop_index) ==
    LET pairs == Pairs(sol, closest_stops[other_stop_index + 1], other_stop_index)
        size == IF pairs = <<>> THEN 0 ELSE MAX_STOP_REGION_SIZE \div Len(pairs)
    IN  {[k \in 1..Len(pairs) |-> choose_region(sol, pairs[k][1], size, raws[k])] :
            raws \in [1..Len(pairs) -> RawValues]}

\* lines 39-74 (called at line 190)
ChooseRegions ==
    /\ pc = "rr_loop"
    /\ iter < iteration_count
    /\ \E r1 \in RawValues :
          LET other == GenIndex(r1, stop_count)
              pairs == Pairs(solution, closest_stops[other + 1], other)
              size == IF pairs = <<>> THEN 0 ELSE MAX_STOP_REGION_SIZE \div Len(pairs)
          IN  \E r2 \in RegionRaws(solution, pairs, 1, size) :
              \E r3 \in RegionRaws(solution, pairs, 2, size) :
                  LET raw_of == [k \in 1..Len(pairs) |->
                                    IF k = 1
                                    THEN (IF r2 = <<>> THEN 0 ELSE r2[1])
                                    ELSE (IF r3 = <<>> THEN 0 ELSE r3[1])]
                  IN  /\ ReplayOK(<<r1>> \o r2 \o r3)
                      /\ regions' = [k \in 1..Len(pairs) |->
                                        choose_region(solution, pairs[k][1], size, raw_of[k])]
                      /\ Consume(<<r1>> \o r2 \o r3)
    /\ pc' = "ruin"
    /\ UNCHANGED <<problem, solution, nn_vars, closest_stops, cost, iter,
                   solutions, round, new_solution, calc_used>>

\* line 208
RRReturn ==
    /\ pc = "rr_loop"
    /\ iter = iteration_count
    /\ pc' = "done"
    /\ UNCHANGED <<problem, solution, nn_vars, rr_vars, rng_used, calc_used, run_vars>>

\* ------------------------------------------------------- optimize_regions
RECURSIVE RuinAll(_, _)
\* lines 99-103
RuinAll(sol, rs) ==
    IF rs = <<>> THEN sol
    ELSE RuinAll(ruin_route(sol, rs[1].vehicle_index, rs[1].start, rs[1].end), Tail(rs))

\* (variant: one round per region, not per removed stop slot)
Slots_PerRegion(rs) == Len(rs)

\* line 111: the number of rounds, one per removed stop slot
Slots(rs) == SumSeq([k \in 1..Len(rs) |-> rs[k].end - rs[k].start])

\* lines 148-156, over all regions as at lines 115-117
RegionStopIndexes(rs, sol) ==
    UNION {{sol[rs[k].vehicle_index + 1][i + 1] : i \in rs[k].start..(rs[k].end - 1)} :
              k \in 1..Len(rs)}

\* (variant: region k is taken out of the route of vehicle k)
Ruin_ByPosition ==
    /\ pc = "ruin"
    /\ LET ruined == RuinAll(solution, [k \in 1..Len(regions) |->
                                          [regions[k] EXCEPT !.vehicle_index = k - 1]])
       IN  solutions' = {<<ruined, Calculate(ruined)>>}
    /\ calc_used' = TRUE
    /\ round' = 0
    /\ pc' = "recreate"
    /\ UNCHANGED <<problem, solution, nn_vars, closest_stops, cost, iter,
                   regions, new_solution, rng_used, run_vars>>

\* lines 99-109
Ruin ==
    /\ pc = "ruin"
    /\ LET ruined == RuinAll(solution, regions)
       IN  solutions' = {<<ruined, Calculate(ruined)>>}
    /\ calc_used' = TRUE
    /\ round' = 0
    /\ pc' = "recreate"
    /\ UNCHANGED <<problem, solution, nn_vars, closest_stops, cost, iter,
                   regions, new_solution, rng_used, run_vars>>

\* (variant: a stop is inserted whether or not the solution has it)
NewSolutions_NoHasStop(frontier, rs, initial_solution) ==
    LET removed == RegionStopIndexes(rs, initial_solution)
        candidates ==
            UNION {UNION {{insert_stop(e[1], rs[k].vehicle_index, rs[k].start, stop_index) :
                              k \in 1..Len(rs)} :
                          stop_index \in removed} :
                   e \in frontier}
    IN  {n \in {<<c, Calculate(c)>> : c \in candidates} : IsFinite(n[2])}

\* lines 114-136: the candidates one round pushes to new_solutions
NewSolutions(frontier, rs, initial_solution) ==
    LET removed == RegionStopIndexes(rs, initial_solution)
        candidates ==
            UNION {UNION {{insert_stop(e[1], rs[k].vehicle_index, rs[k].start, stop_index) :
                              k \in 1..Len(rs)} :
                          stop_index \in {s \in removed : ~has_stop(e[1], s)}} :
                   e \in frontier}
    IN  {n \in {<<c, Calculate(c)>> : c \in candidates} : IsFinite(n[2])}

\* line 138: HashMap::extend replaces the value of a key already present
Extend(frontier, new) ==
    LET keys == {n[1] : n \in new}
    IN  {e \in frontier : e[1] \notin keys} \cup new

\* lines 111-139: one round of the recreate loop
RecreateRound ==
    /\ pc = "recreate"
    /\ round < Slots(regions)
    /\ solutions' = Extend(solutions, NewSolutions(solutions, regions, solution))
    /\ round' = round + 1
    /\ UNCHANGED <<problem, pc, solution, nn_vars, closest_stops, cost, iter,
                   regions, new_solution, rng_used, calc_used, run_vars>>

\* (variant: the comparison is the wrong way round)
MinSolutions_Greatest(frontier) ==
    LET most == CHOOSE m \in frontier : \A o \in frontier : OrdLeq(o[2], m[2])
    IN  {e[1] : e \in {m \in frontier : OrdLeq(most[2], m[2])}}

\* lines 141-145: the frontier entries min_by can return: it returns the first
\* minimal entry in the iteration order of the map
MinSolutions(frontier) ==
    LET least == CHOOSE m \in frontier : \A o \in frontier : OrdLeq(m[2], o[2])
    IN  {e[1] : e \in {m \in frontier : OrdLeq(m[2], least[2])}}

\* the iteration order of the frontier map is not fixed by the source; when
\* two runs are compared it is taken to be the same in both
SelectFrom(S) == IF run = 0 THEN S ELSE {CHOOSE s \in S : TRUE}

\* lines 141-145 (returning to line 192)
SelectMin ==
    /\ pc = "recreate"
    /\ round = Slots(regions)
    /\ new_solution' \in SelectFrom(MinSolutions(solutions))
    /\ pc' = "accept"
    /\ UNCHANGED <<problem, solution, nn_vars, closest_stops, cost, iter,
                   regions, solutions, round, rng_used, calc_used, run_vars>>

\* (variant: the recreated solution is taken whatever it costs)
Accept_Always ==
    /\ pc = "accept"
    /\ solution' = new_solution
    /\ cost' = Calculate(new_solution)
    /\ iter' = iter + 1
    /\ regions' = <<>>
    /\ solutions' = {}
    /\ round' = 0
    /\ new_solution' = <<>>
    /\ pc' = "rr_loop"
    /\ UNCHANGED <<problem, nn_vars, closest_stops, rng_used, calc_used, run_vars>>

\* (variant: a recreated solution that costs the same is taken too)
Accept_NotWorse ==
    /\ pc = "accept"
    /\ LET new_cost == Calculate(new_solution)
       IN  IF new_cost # NaN /\ cost # NaN /\ new_cost <= cost
           THEN /\ solution' = new_solution
                /\ cost' = new_cost
           ELSE UNCHANGED <<solution, cost>>
    /\ iter' = iter + 1
    /\ regions' = <<>>
    /\ solutions' = {}
    /\ round' = 0
    /\ new_solution' = <<>>
    /\ pc' = "rr_loop"
    /\ UNCHANGED <<problem, nn_vars, closest_stops, rng_used, calc_used, run_vars>>

\* lines 193-205
Accept ==
    /\ pc = "accept"
    /\ LET new_cost == Calculate(new_solution)
       IN  IF Lt(new_cost, cost)
           THEN /\ solution' = new_solution
                /\ cost' = new_cost
           ELSE UNCHANGED <<solution, cost>>
    /\ iter' = iter + 1
    /\ regions' = <<>>
    /\ solutions' = {}
    /\ round' = 0
    /\ new_solution' = <<>>
    /\ pc' = "rr_loop"
    /\ UNCHANGED <<problem, nn_vars, closest_stops, rng_used, calc_used, run_vars>>

\* ------------------------------------------------------------ a second run
\* a freshly constructed solver is run again on the same problem
Rerun ==
    /\ pc = "done"
    /\ run = 1
    /\ run' = 2
    /\ first' = solution
    /\ rng_pos' = 0
    /\ pc' = "rr_start"
    /\ solution' = <<>>
    /\ stops' = {}
    /\ vehicle_index' = 0
    /\ closest_stops' = <<>>
    /\ cost' = 0
    /\ iter' = 0
    /\ regions' = <<>>
    /\ solutions' = {}
    /\ round' = 0
    /\ new_solution' = <<>>
    /\ rng_used' = FALSE
    /\ calc_used' = FALSE
    /\ UNCHANGED <<problem, rng_log>>

\* ---------------------------------------------------------- specifications
InitLocals ==
    /\ solution = <<>>
    /\ stops = {}
    /\ vehicle_index = 0
    /\ closest_stops = <<>>
    /\ cost = 0
    /\ iter = 0
    /\ regions = <<>>
    /\ solutions = {}
    /\ round = 0
    /\ new_solution = <<>>
    /\ rng_used = FALSE
    /\ calc_used = FALSE
    /\ first = <<>>
    /\ rng_log = <<>>
    /\ rng_pos = 0

InitTopology(max_vehicles, max_stops, max_coord) ==
    /\ vehicle_count \in 0..max_vehicles
    /\ stop_count \in 0..max_stops
    /\ vehicle_start \in [1..vehicle_count -> 0..max_coord]
    /\ stop_loc \in [1..stop_count -> 0..max_coord]

\* NearestNeighborSolver::solve on its own
InitNN ==
    /\ InitTopology(MaxVehiclesNN, MaxStopsNN, MaxCoordNN)
    /\ iteration_count = 0
    /\ calc = "distance"
    /\ solver = "nn"
    /\ pc = "nn_start"
    /\ run = 0
    /\ InitLocals

\* RuinAndRecreateSolver::new(calc, router, NearestNeighborSolver, n).solve
InitRR ==
    /\ InitTopology(MaxVehicles, MaxStops, MaxCoord)
    /\ iteration_count \in 0..MaxIterations
    /\ calc \in Calculators
    /\ solver = "rr"
    /\ pc = "rr_start"
    /\ InitLocals

\* NearestNeighborSolver::solve on its own, on the same problems
InitNNSmall ==
    /\ InitTopology(MaxVehicles, MaxStops, MaxCoord)
    /\ iteration_count = 0
    /\ calc = "distance"
    /\ solver = "nn"
    /\ pc = "nn_start"
    /\ InitLocals

Init == (InitRR \/ InitNNSmall) /\ run = 0

\* solve() of tests::even_workload (lines 287-299): stops at x = 0, 1, 2,
\* the delivery calculator; the two vehicles start anywhere on the line
InitEven ==
    /\ vehicle_count = EVEN_WORKLOAD_VEHICLES
    /\ stop_count = EVEN_WORKLOAD_STOPS
    /\ vehicle_start \in [1..vehicle_count -> 0..MaxStart]
    /\ stop_loc = [s \in 1..stop_count |-> s - 1]
    /\ iteration_count \in 0..MaxIterations
    /\ calc = "delivery"
    /\ solver = "rr"
    /\ pc = "rr_start"
    /\ run = 0
    /\ InitLocals

\* RuinAndRecreateSolver::solve on a problem whose routes outgrow a region:
\* vehicle 0 starts at x = 0 with stops 0..3 at x = 1..4 ahead of it,
\* vehicle 1 starts at x = 6, where stop 4 lies
InitLong ==
    /\ vehicle_count = 2
    /\ stop_count = 5
    /\ vehicle_start = <<0, 6>>
    /\ stop_loc = <<1, 2, 3, 4, 6>>
    /\ iteration_count \in 0..MaxIterationsLong
    /\ calc \in Calculators
    /\ solver = "rr"
    /\ pc = "rr_start"
    /\ run = 0
    /\ InitLocals

\* RuinAndRecreateSolver::solve on the problems of the size of
\* tests::even_workload, one iteration, every calculator
InitThree ==
    /\ vehicle_count = EVEN_WORKLOAD_VEHICLES
    /\ stop_count = EVEN_WORKLOAD_STOPS
    /\ vehicle_start \in [1..vehicle_count -> 0..EVEN_WORKLOAD_MAX_X]
    /\ stop_loc \in [1..stop_count -> 0..EVEN_WORKLOAD_MAX_X]
    /\ iteration_count = 1
    /\ calc \in Calculators \cup {"nan"}
    /\ solver = "rr"
    /\ pc = "rr_start"
    /\ run = 0
    /\ InitLocals

InitTwice == InitRR /\ run = 1

NextNN == NNEntry \/ NNStep \/ NNReturn

Next ==
    \/ RRSolve
    \/ NNEntry
    \/ NNStep
    \/ NNReturn
    \/ RRCost
    \/ ChooseRegions
    \/ Ruin
    \/ RecreateRound
    \/ SelectMin
    \/ Accept
    \/ RRReturn

NextTwice == Next \/ Rerun

\* one call of RuinAndRecreateSolver::solve
Spec == Init /\ [][Next]_vars

\* one call of NearestNeighborSolver::solve
SpecNN == InitNN /\ [][NextNN]_vars

\* two calls of solve, each of a fresh solver, on the same problem
SpecTwice == InitTwice /\ [][NextTwice]_vars

\* one call of solve() on the problem of tests::even_workload
SpecEven == InitEven /\ [][Next]_vars

\* one call of RuinAndRecreateSolver::solve, routes longer than a region
SpecLong == InitLong /\ [][Next]_vars

\* one call of RuinAndRecreateSolver::solve, two vehicles and three stops
SpecThree == InitThree /\ [][Next]_vars

\* ------------------------------------------------------------ properties
\* every stop index occurs exactly once in the solution, and nothing else
EveryStopOnce(sol) ==
    /\ \A s \in StopSet : Occurrences(sol, s) = 1
    /\ \A v \in 1..Len(sol) : Range(sol[v]) \subseteq StopSet

\* positions of RuinAndRecreateSolver::solve at which `cost` is live
LoopPcs == {"rr_loop", "ruin", "recreate", "accept"}

\* C1: NearestNeighborSolver::solve with vehicle_count > 0 returns exactly
\* vehicle_count routes that hold every stop index exactly once.
C1_StopConservation ==
    (solver = "nn" /\ pc = "done" /\ vehicle_count > 0) =>
        /\ Len(solution) = vehicle_count
        /\ EveryStopOnce(solution)

C1_Witness ==
    /\ solver = "nn"
    /\ pc = "done"
    /\ vehicle_count = 2
    /\ stop_count = 3
    /\ stop_loc[1] = stop_loc[2]
    /\ Len(solution[1]) = 2

\* C2 (as stated): RuinAndRecreateSolver::solve with vehicle_count > 0 and
\* stop_count > 0 returns a Solution holding every stop exactly once, with
\* the distance calculator as with the delivery calculator.
C2_ConservationAnyCalculator ==
    (solver = "rr" /\ pc = "done" /\ vehicle_count > 0 /\ stop_count > 0
        /\ calc \in {"distance", "delivery"}) =>
        EveryStopOnce(solution)

\* C2 (amended): the same, when the calculator is the delivery calculator,
\* whose missed-stop penalty exceeds every distance cost.
C2_ConservationWithPenalty ==
    (solver = "rr" /\ pc = "done" /\ vehicle_count > 0 /\ stop_count > 0
        /\ calc = "delivery") =>
        EveryStopOnce(solution)

\* an improvement was accepted: the nearest neighbour solver gives each of
\* two vehicles one of two stops
C2_Witness ==
    /\ solver = "rr"
    /\ pc = "done"
    /\ calc = "delivery"
    /\ vehicle_count = 2
    /\ stop_count = 2
    /\ iter = 1
    /\ Len(solution[1]) = 2
    /\ EveryStopOnce(solution)

\* C3: the incumbent cost never increases from one step of the main loop to
\* the next, nor does the cost of the incumbent Solution.
C3_CostNonIncreasing ==
    [][(pc \in LoopPcs /\ pc' \in LoopPcs \cup {"done"}) =>
            /\ cost' <= cost
            /\ Calculate(solution') <= Calculate(solution)]_vars

\* a recreated solution that costs more than the incumbent is up for acceptance
C3_Witness ==
    /\ pc = "accept"
    /\ IsFinite(cost)
    /\ cost < Calculate(new_solution)

\* C4: a second run of a fresh RuinAndRecreateSolver on the same problem, the
\* same calculator and the same seed returns the Solution the first returned.
C4_SameSolutionTwice ==
    (run = 2 /\ pc = "done") => solution = first

\* the stop an assignment step of the nearest neighbour solver appended
Appended == CHOOSE s \in stops : s \notin stops'

\* the reference point of the step: the location of the last stop of the
\* vehicle's route, or its start location when the route is empty
ReferencePoint ==
    LET route == solution[vehicle_index + 1]
    IN  IF Len(route) = 0 THEN vehicle_start[vehicle_index + 1]
        ELSE stop_loc[route[Len(route)] + 1]

AssignmentStep == pc = "nn_loop" /\ stops' # stops

\* C5: among the unvisited stops at minimal distance from the reference
\* point, the stop appended is the one of lowest index.
C5_LowestIndexOnTie ==
    [][AssignmentStep =>
          \A t \in stops :
              Abs(ReferencePoint - stop_loc[t + 1]) = Abs(ReferencePoint - stop_loc[Appended + 1])
                  => Appended <= t]_vars

\* C6: the stop appended to the current vehicle's route is an unvisited stop
\* at minimal distance from the reference point.
C6_GreedyChoice ==
    [][AssignmentStep =>
          /\ stops' = stops \ {Appended}
          /\ solution'[vehicle_index + 1] = Append(solution[vehicle_index + 1], Appended)
          /\ \A v \in VehicleSet \ {vehicle_index} : solution'[v + 1] = solution[v + 1]
          /\ \A t \in stops :
                Abs(ReferencePoint - stop_loc[Appended + 1]) <= Abs(ReferencePoint - stop_loc[t + 1])]_vars

\* after a step from a non-empty route: a stop left unvisited is as near to
\* the vehicle's start as the stop appended, but farther from the stop
\* appended before it
C6_Witness ==
    /\ pc = "nn_loop"
    /\ vehicle_count = 1
    /\ stop_count = 3
    /\ Len(solution[1]) = 2
    /\ \E t \in stops :
          /\ Abs(vehicle_start[1] - stop_loc[t + 1])
                <= Abs(vehicle_start[1] - stop_loc[solution[1][2] + 1])
          /\ Abs(stop_loc[solution[1][1] + 1] - stop_loc[t + 1])
                > Abs(stop_loc[solution[1][1] + 1] - stop_loc[solution[1][2] + 1])

\* number of assignments made so far
Assigned == stop_count - Cardinality(stops)

\* C7: the k-th assignment goes to vehicle k mod vehicle_count, so after k
\* assignments vehicle v holds ceil((k - v) / vehicle_count) stops; the loop
\* returns with k = stop_count.
C7_RoundRobin ==
    (solver = "nn" /\ vehicle_count > 0 /\ pc \in {"nn_loop", "done"}) =>
        /\ pc = "nn_loop" => vehicle_index = Assigned % vehicle_count
        /\ pc = "done" => Assigned = stop_count
        /\ \A v \in VehicleSet :
              Len(solution[v + 1]) = (Assigned - v + vehicle_count - 1) \div vehicle_count
        /\ \A v, w \in VehicleSet :
              /\ Len(solution[v + 1]) - Len(solution[w + 1]) <= 1
              /\ v < w => Len(solution[v + 1]) >= Len(solution[w + 1])

C7_Witness ==
    /\ solver = "nn"
    /\ pc = "done"
    /\ vehicle_count = 2
    /\ stop_count = 3
    /\ Len(solution[1]) = 2
    /\ Len(solution[2]) = 1

\* C8: with no vehicle both solvers return a Solution without routes and
\* enter neither the assignment loop nor the ruin and recreate loop.
C8_ZeroVehicles ==
    vehicle_count = 0 =>
        /\ pc \in {"nn_start", "rr_start", "done"}
        /\ pc = "done" => solution = <<>>
        /\ stops = {}
        /\ iter = 0
        /\ ~rng_used
        /\ ~calc_used

C8_Witness ==
    /\ solver = "rr"
    /\ vehicle_count = 0
    /\ stop_count = 2
    /\ iteration_count = 1
    /\ pc = "done"

\* C9: with no stop and at least one vehicle both solvers return exactly
\* vehicle_count routes, all empty.
C9_ZeroStops ==
    (stop_count = 0 /\ vehicle_count > 0 /\ pc = "done") =>
        /\ Len(solution) = vehicle_count
        /\ \A v \in 1..Len(solution) : solution[v] = <<>>

C9_Witness ==
    /\ solver = "rr"
    /\ stop_count = 0
    /\ vehicle_count = 2
    /\ iteration_count = 1
    /\ pc = "done"

\* C10: with one stop RuinAndRecreateSolver::solve returns what the initial
\* solver returns (the stop on vehicle 0), runs no iteration, draws nothing
\* from the random source and never calls the calculator.
C10_SingleStopDelegation ==
    (solver = "rr" /\ stop_count = 1 /\ vehicle_count > 0) =>
        /\ pc \notin {"rr_cost"} \cup LoopPcs
        /\ iter = 0
        /\ ~rng_used
        /\ ~calc_used
        /\ closest_stops = <<>>
        /\ pc = "done" =>
              /\ Len(solution) = vehicle_count
              /\ solution[1] = <<0>>
              /\ \A v \in 2..Len(solution) : solution[v] = <<>>

C10_Witness ==
    /\ solver = "rr"
    /\ stop_count = 1
    /\ vehicle_count = 2
    /\ iteration_count = 1
    /\ pc = "done"


\* C11: with two vehicles, three collinear stops and the delivery calculator,
\* no route of the Solution RuinAndRecreateSolver::solve returns holds all
\* three stops, whatever the random region choices.
C11_EvenWorkload ==
    (solver = "rr" /\ pc = "done" /\ calc = "delivery"
        /\ vehicle_count = EVEN_WORKLOAD_VEHICLES /\ stop_count = EVEN_WORKLOAD_STOPS) =>
        \A v \in 1..Len(solution) : Len(solution[v]) < EVEN_WORKLOAD_STOPS

\* C12: no Solution of non-finite cost (infinite or NaN) is ever in the
\* recreate frontier, the ruined Solution that seeds it included, and
\* optimize_regions never returns one.
C12_FrontierFinite ==
    /\ \A e \in solutions : IsFinite(e[2]) /\ IsFinite(Calculate(e[1]))
    /\ pc = "accept" => IsFinite(Calculate(new_solution))

\* the stops a solution serves
SolutionStops(sol) == UNION {Range(sol[v]) : v \in 1..Len(sol)}

\* C13: every Solution of the recreate frontier holds no stop twice and only
\* stops of the incumbent, and one into which all removed stops have been
\* reinserted holds exactly the stops of the incumbent.
C13_RuinRecreateRoundTrip ==
    \A e \in solutions :
        /\ \A s \in StopSet : Occurrences(e[1], s) <= 1
        /\ SolutionStops(e[1]) \subseteq SolutionStops(solution)
        /\ RegionStopIndexes(regions, solution) \subseteq SolutionStops(e[1]) =>
               SolutionStops(e[1]) = SolutionStops(solution)

C13_Witness ==
    /\ pc = "recreate"
    /\ round = Slots(regions)
    /\ round = EVEN_WORKLOAD_STOPS
    /\ \E e \in solutions :
          /\ e[1] # solution
          /\ SolutionStops(e[1]) = StopSet
    /\ \E e \in solutions :
          /\ SolutionStops(e[1]) # {}
          /\ SolutionStops(e[1]) # SolutionStops(solution)

\* the stop slots the regions of this iteration removed
RemovedSlots == SumSeq([k \in 1..Len(regions) |-> regions[k].end - regions[k].start])

\* steps one iteration of the main loop takes at most: choose_regions, the
\* ruin, one round per stop slot of the regions, the selection, the acceptance
IterationSteps == MAX_STOP_REGION_SIZE + 4

\* steps of the iteration under way that have been taken
StepsTaken ==
    CASE pc = "ruin" -> 1
      [] pc = "recreate" -> 2 + round
      [] pc = "accept" -> MAX_STOP_REGION_SIZE + 3
      [] OTHER -> 0

\* steps left from the return of the initial solver to the main loop on
LoopSteps == IF NNReturnPc = "rr_cost" THEN iteration_count * IterationSteps + 2 ELSE 0

\* an upper bound of the steps solve() has left to take
StepsLeft ==
    CASE pc = "done" -> 0
      [] pc = "rr_start" -> LoopSteps + stop_count + 3
      [] pc = "nn_start" -> LoopSteps + stop_count + 2
      [] pc = "nn_loop" -> LoopSteps + Cardinality(stops) + 1
      [] pc = "rr_cost" -> LoopSteps
      [] OTHER -> (iteration_count - iter) * IterationSteps + 1 - StepsTaken

\* solve() can take a step.  In the recreate loop either a round is left or
\* the frontier, which is never empty, is searched for its minimum; the main
\* loop has an iteration left or returns; the cost call, the ruin and the
\* acceptance are straight-line code
CanStep ==
    CASE pc = "recreate" -> round <= RemovedSlots /\ solutions # {}
      [] pc = "rr_loop" -> iter <= iteration_count
      [] pc \in {"rr_start", "nn_start", "nn_loop"} -> ENABLED Next
      [] OTHER -> pc \in {"rr_cost", "ruin", "accept"}

\* C14: solve() of either solver terminates: every step lowers a bound of
\* the steps left, and a step can be taken until solve() has returned.
\* NearestNeighborSolver has made exactly stop_count assignments when it
\* returns (vehicle_count > 0), RuinAndRecreateSolver returns after exactly
\* iteration_count iterations of its main loop, and each recreate phase
\* runs exactly one round per removed stop slot.
C14_Termination ==
    /\ [][StepsLeft' < StepsLeft]_vars
    /\ [](StepsLeft >= 0 /\ (pc # "done" => CanStep))
    /\ [](((pc = "rr_cost" \/ (pc = "done" /\ solver = "nn")) /\ vehicle_count > 0) =>
              DeliveredCount(solution) = stop_count)
    /\ []((pc = "done" /\ solver = "rr" /\ vehicle_count > 0 /\ stop_count > 1) =>
              iter = iteration_count)
    /\ [](pc = "recreate" => round <= RemovedSlots)
    /\ [](pc = "accept" => round = RemovedSlots)

C14_Witness ==
    /\ pc = "done"
    /\ solver = "rr"
    /\ vehicle_count = 2
    /\ stop_count = 2
    /\ iteration_count > 0
    /\ iter = iteration_count

\* positions of solve() at which the regions of the iteration are live
RegionPcs == {"ruin", "recreate", "accept"}

\* C15: choose_regions yields at most two regions, no two of the same
\* vehicle, and each region (vehicle v, range s..e) has 0 <= s <= e <= len
\* and e - s = min(MAX_STOP_REGION_SIZE / number of regions, len), len being
\* the length of the route of v.
C15_RegionsWellFormed ==
    pc \in RegionPcs =>
        /\ Len(regions) <= MAX_VEHICLE_REGION_SIZE
        /\ \A j, k \in 1..Len(regions) :
               j # k => regions[j].vehicle_index # regions[k].vehicle_index
        /\ \A k \in 1..Len(regions) :
               LET r == regions[k]
                   len == Len(solution[r.vehicle_index + 1])
                   size == MAX_STOP_REGION_SIZE \div Len(regions)
               IN  /\ r.vehicle_index \in VehicleSet
                   /\ 0 <= r.start
                   /\ r.start <= r.end
                   /\ r.end <= len
                   /\ r.end - r.start = (IF size < len THEN size ELSE len)

C15_Witness ==
    /\ pc = "ruin"
    /\ Len(regions) = 2
    /\ \E k \in 1..2 :
          /\ Len(solution[regions[k].vehicle_index + 1]) > 3
          /\ regions[k].end - regions[k].start = 3

\* C16: for a route of length L and a region of k stops, every offset o with
\* 0 <= o and o + k <= L is a start choose_region can return, so every
\* position of the route, the last included, can fall inside a region.
C16_OffsetCoverage ==
    (pc = "rr_loop" /\ iter < iteration_count) =>
        \A other \in StopSet :
            LET pairs == Pairs(solution, closest_stops[other + 1], other)
                size == IF pairs = <<>> THEN 0 ELSE MAX_STOP_REGION_SIZE \div Len(pairs)
            IN  \A k \in 1..Len(pairs) :
                    LET v == pairs[k][1]
                        len == Len(solution[v + 1])
                        region_size == IF size < len THEN size ELSE len
                    IN  \A o \in 0..(len - region_size) :
                            \E raw \in RawValues :
                                choose_region(solution, v, size, raw).start = o

\* the recreated solution costs strictly less than the incumbent
StrictlyLower ==
    /\ Calculate(new_solution) # NaN
    /\ cost # NaN
    /\ Calculate(new_solution) < cost

\* C17: an iteration replaces the incumbent and its cost only by a recreated
\* solution that costs strictly less; when that costs the same, more, or is
\* not finite, both are left as they are; and the stored cost is always the
\* calculator's cost of the stored incumbent.
C17_StrictAcceptance ==
    /\ [][pc = "accept" =>
             IF StrictlyLower
             THEN solution' = new_solution /\ cost' = Calculate(new_solution)
             ELSE solution' = solution /\ cost' = cost]_vars
    /\ [](pc \in LoopPcs => cost = Calculate(solution))

C17_Witness ==
    /\ pc = "accept"
    /\ new_solution # solution
    /\ Calculate(new_solution) = cost
    /\ IsFinite(cost)

\* the incumbent without the first j[k] stops of region k, for every j: what
\* is left to pass through when the stops of each region are put back at the
\* region start, last stop first
PartialRebuilds ==
    {RuinAll(solution, [k \in 1..Len(regions) |->
                           [regions[k] EXCEPT !.end = regions[k].start + j[k]]]) :
        j \in {f \in [1..Len(regions) -> 0..MAX_STOP_REGION_SIZE] :
                  \A k \in 1..Len(regions) :
                      f[k] <= regions[k].end - regions[k].start}}

\* C18: optimize_regions returns a frontier entry of minimal cost, and when
\* every intermediate cost is finite the incumbent itself is in the final
\* frontier, so that the returned cost is at most the incumbent's.
C18_MinimumAndRebuild ==
    pc = "accept" =>
        /\ \E e \in solutions :
               /\ e[1] = new_solution
               /\ \A o \in solutions : e[2] <= o[2]
        /\ (\A p \in PartialRebuilds : IsFinite(Calculate(p))) =>
               /\ <<solution, cost>> \in solutions
               /\ Calculate(new_solution) <= cost

C18_Witness ==
    /\ pc = "accept"
    /\ Len(regions) = 2
    /\ calc = "delivery"
    /\ \A p \in PartialRebuilds : IsFinite(Calculate(p))
    /\ <<solution, cost>> \in solutions
    /\ new_solution # solution
    /\ Calculate(new_solution) < cost

\* the stops of the incumbent that lie in a region
Removed ==
    UNION {{solution[regions[k].vehicle_index + 1][i] :
               i \in (regions[k].start + 1)..regions[k].end} : k \in 1..Len(regions)}

\* the route without the removed stops
Kept(route) == SelectSeq(route, LAMBDA s : s \notin Removed)

RoutedCount(other) ==
    Cardinality({s \in {closest_stops[other + 1], other} : has_stop(solution, s)})

\* C20: when no route of the incumbent holds either stop of the drawn edge,
\* choose_regions returns no region, optimize_regions returns the incumbent
\* and the iteration leaves the incumbent and its cost as they are; when a
\* route holds just one of the two stops, there is exactly one region.
C20_UnroutedEdge ==
    /\ []((pc = "rr_loop" /\ iter < iteration_count) =>
             \A other \in StopSet :
                 /\ RoutedCount(other) = 0 => PossibleRegions(solution, other) = {<<>>}
                 /\ RoutedCount(other) = 1 =>
                        \A rs \in PossibleRegions(solution, other) : Len(rs) = 1)
    /\ [][(pc = "rr_loop" /\ pc' = "ruin") =>
              \E other \in StopSet : regions' \in PossibleRegions(solution, other)]_vars
    /\ []((pc = "recreate" /\ regions = <<>>) =>
             solutions = {<<solution, cost>>} /\ round = RemovedSlots)
    /\ []((pc = "accept" /\ regions = <<>>) => new_solution = solution)
    /\ [][(pc = "accept" /\ regions = <<>>) =>
              solution' = solution /\ cost' = cost]_vars

C20_Witness ==
    /\ pc = "accept"
    /\ regions = <<>>
    /\ new_solution = solution
    /\ \A other \in StopSet : RoutedCount(other) < 2
    /\ \E other \in StopSet : RoutedCount(other) = 1
====
